---- MODULE Spec2Model ----
(***************************************************************************)
(* polybar-now-playing: the player-selection and display-state engine of   *)
(* src/main.rs (struct State and the select! loop of main).                *)
(*                                                                         *)
(* A string is a sequence of characters; a character is a one-element      *)
(* token with a display width (width_cjk) and a UTF-8 byte length.  A bus  *)
(* name is the sequence of its dot-separated segments.                     *)
(***************************************************************************)
EXTENDS Integers, Sequences, FiniteSets, TLC

(* ------------------------------ bounds -------------------------------- *)
\* longest registry snapshot (number of bus names list_names returns)
MaxSnapshot == 2
\* the message_display_len of the configuration file
DisplayLen == 3
\* longest text handed to make_visual_len in SpecRender
MaxTextLen == 3

(* --------------------------- characters ------------------------------- *)
\* "W" stands for a wide (East-Asian, 3-byte) character, "h" for a narrow
\* two-byte character, "z" for a zero-width two-byte combining mark.
WideChars == {"W"}
ZeroWidthChars == {"z"}
TwoByteChars == {"h", "z"}

\* unicode_width::UnicodeWidthChar::width_cjk(c).unwrap_or(0)
CharWidth(c) ==
  IF c \in WideChars THEN 2 ELSE IF c \in ZeroWidthChars THEN 0 ELSE 1

\* the number of bytes of the UTF-8 encoding of c
CharBytes(c) ==
  IF c \in WideChars THEN 3 ELSE IF c \in TwoByteChars THEN 2 ELSE 1

RECURSIVE SumWidth(_)
SumWidth(s) == IF s = <<>> THEN 0 ELSE CharWidth(Head(s)) + SumWidth(Tail(s))

\* fn visual_len: the display width of a string
visual_len(s) == SumWidth(s)

RECURSIVE byte_len(_)
\* String::len: the stored length in bytes
byte_len(s) == IF s = <<>> THEN 0 ELSE CharBytes(Head(s)) + byte_len(Tail(s))

\* " ".repeat(n)
Spaces(n) == [i \in 1..n |-> " "]

(* ------------------------- make_visual_len ---------------------------- *)
\* KeepsChar looking only at the width accumulated so far
KeepsCharIgnoringWidth(visual_length, width, visual_desired_length) ==
  visual_length < visual_desired_length

\* the loop condition of make_visual_len: the character is kept while the
\* accumulated width plus its width is below the desired length
KeepsChar(visual_length, width, visual_desired_length) ==
  visual_length + width < visual_desired_length

RECURSIVE TakeFitting(_, _, _)
\* the for loop of make_visual_len: the kept prefix, stopping at the first
\* character that is not kept
TakeFitting(text, visual_length, visual_desired_length) ==
  IF text = <<>> THEN <<>>
  ELSE IF KeepsChar(visual_length, CharWidth(Head(text)), visual_desired_length)
       THEN <<Head(text)>> \o TakeFitting(Tail(text),
                                          visual_length + CharWidth(Head(text)),
                                          visual_desired_length)
       ELSE <<>>

\* fn make_visual_len
make_visual_len(text, visual_desired_length) ==
  LET altered_text == TakeFitting(text, 0, visual_desired_length)
      visual_length == SumWidth(altered_text)
  IN  IF visual_length < visual_desired_length
      THEN altered_text \o Spaces(visual_desired_length - visual_length)
      ELSE altered_text

(* ---------------------------- bus names ------------------------------- *)
\* str::to_ascii_lowercase on the segments that occur in the model
Lower(seg) ==
  CASE seg = "ORG" -> "org"
    [] seg = "MPRIS" -> "mpris"
    [] seg = "MediaPlayer2" -> "mediaplayer2"
    [] seg = "MEDIAPLAYER2" -> "mediaplayer2"
    [] OTHER -> seg

\* the filter closure of update_players:
\* name.to_ascii_lowercase().starts_with("org.mpris.mediaplayer2.")
IsPlayer(name) ==
  /\ Len(name) >= 4
  /\ Lower(name[1]) = "org"
  /\ Lower(name[2]) = "mpris"
  /\ Lower(name[3]) = "mediaplayer2"

RECURSIVE Filter(_)
\* into_iter().filter(..).collect(): keeps the order of the snapshot
Filter(names) ==
  IF names = <<>> THEN <<>>
  ELSE IF IsPlayer(Head(names)) THEN <<Head(names)>> \o Filter(Tail(names))
       ELSE Filter(Tail(names))

RECURSIVE Join(_, _)
\* Vec<&str>::join(sep)
Join(parts, sep) ==
  IF parts = <<>> THEN <<>>
  ELSE IF Len(parts) = 1 THEN Head(parts)
       ELSE Head(parts) \o sep \o Join(Tail(parts), sep)

\* fn get_name: split('.').skip(3).collect().join("."), as a string whose
\* characters are the segments and the dots
get_name(player_name) ==
  IF Len(player_name) <= 3 THEN <<>>
  ELSE Join([i \in 1..(Len(player_name) - 3) |-> <<player_name[i + 3]>>], <<".">>)

\* the bus names a registry snapshot is drawn from
BusNames ==
  { <<"org", "mpris", "MediaPlayer2", "vlc">>,
    <<"ORG", "MPRIS", "MEDIAPLAYER2", "vlc", "instance7">>,
    <<"org", "freedesktop", "DBus">> }

\* what list_names can return: bus names are unique on the bus
Snapshots ==
  { s \in UNION { [1..n -> BusNames] : n \in 0..MaxSnapshot } :
      \A i, j \in 1..Len(s) : i # j => s[i] # s[j] }

(* ------------------------------ Option -------------------------------- *)
\* Option<T>: None is the empty sequence, Some(x) the one-element sequence
None == <<>>
Some(x) == <<x>>
is_some(o) == o # <<>>
unwrap(o) == o[1]

\* const STRNONE: Option<&str> = None
STRNONE == None

(* --------------------------- metadata values -------------------------- *)
\* zvariant::Value, as [kind, val]; the integer and float kinds carry an
\* integer (floats are restricted to integral values, which f64::to_string
\* prints without a fraction)
IntKinds == {"U8", "U16", "U32", "U64", "I16", "I32", "I64", "F64"}

Digit(d) ==
  CASE d = 0 -> "0" [] d = 1 -> "1" [] d = 2 -> "2" [] d = 3 -> "3"
    [] d = 4 -> "4" [] d = 5 -> "5" [] d = 6 -> "6" [] d = 7 -> "7"
    [] d = 8 -> "8" [] d = 9 -> "9"

RECURSIVE NatToString(_)
NatToString(n) ==
  IF n < 10 THEN <<Digit(n)>> ELSE NatToString(n \div 10) \o <<Digit(n % 10)>>

\* x.to_string() of the integer kinds
IntToString(n) == IF n < 0 THEN <<"-">> \o NatToString(0 - n) ELSE NatToString(n)

\* x.to_string() of Value::Bool
BoolToString(b) ==
  IF b THEN <<"t", "r", "u", "e">> ELSE <<"f", "a", "l", "s", "e">>

RECURSIVE value_to_string(_)
\* fn value_to_string: [ok, str]; ok = FALSE is the panic of arr.get()[0] on
\* an empty array or of unimplemented!() on any other kind
\* (an F64 of the model is a whole number, which f64::to_string prints
\* without a fraction)
value_to_string(val) ==
  IF val.kind = "Array"
  THEN IF val.val = <<>> THEN [ok |-> FALSE, str |-> <<>>]
       ELSE value_to_string(val.val[1])
  ELSE IF val.kind \in IntKinds THEN [ok |-> TRUE, str |-> IntToString(val.val)]
  ELSE IF val.kind = "Bool" THEN [ok |-> TRUE, str |-> BoolToString(val.val)]
  ELSE IF val.kind = "F64" THEN [ok |-> TRUE, str |-> IntToString(val.val)]
  ELSE IF val.kind = "Str" THEN [ok |-> TRUE, str |-> val.val]
  ELSE [ok |-> FALSE, str |-> <<>>]

\* char::is_whitespace on the characters of the model
IsWhitespace(c) == c = " "

RECURSIVE TrimStart(_)
TrimStart(s) ==
  IF s # <<>> /\ IsWhitespace(Head(s)) THEN TrimStart(Tail(s)) ELSE s

RECURSIVE TrimEnd(_)
TrimEnd(s) ==
  IF s # <<>> /\ IsWhitespace(s[Len(s)]) THEN TrimEnd(SubSeq(s, 1, Len(s) - 1))
  ELSE s

\* str::trim
trim(s) == TrimEnd(TrimStart(s))

StrV(s) == [kind |-> "Str", val |-> s]
ArrV(a) == [kind |-> "Array", val |-> a]

\* the metadata records the MetadataSource can answer with
\* (HashMap<String, Value>, a function from the present keys to values)
MetadataRecords ==
  << <<>>,
     ("xesam:title" :> StrV(<<"H", "i">>)),
     ("xesam:title" :> ArrV(<<StrV(<<"W">>), StrV(<<"x">>)>>))
        @@ ("xesam:artist" :> [kind |-> "U32", val |-> 7]),
     ("xesam:title" :> StrV(<<" ">>))
        @@ ("xesam:artist" :> ArrV(<<ArrV(<<StrV(<<" ", "h", "h">>)>>)>>))
        @@ ("mpris:length" :> [kind |-> "I64", val |-> 12]),
     ("xesam:title" :> StrV(<<"a", "b", "c">>)),
     ("xesam:title" :> StrV(<<"a">>))
        @@ ("xesam:artist" :> ArrV(<<>>)) >>

\* the PlaybackStatus values of the MPRIS interface
Statuses == {"Playing", "Paused"}

(* --------------------------- configuration --------------------------- *)
\* display_player_prefixes.specific, key and glyph, in the order HashMap::iter
\* visits it.  No player name of the model is contained in two keys, so the
\* order decides nothing
SpecificPrefixes ==
  << <<(<<"vlc">>), "V">>, <<(<<"instance7">>), "I">> >>

\* struct Config (config.rs), loaded once before the loop
Configs ==
  [ message_display_len : {DisplayLen},
    font_index : {1},
    control_chars : {[play |-> ">", pause |-> "=", previous |-> "[", next |-> "]"]},
    default_prefix : {"?"},
    specific : {SpecificPrefixes},
    metadata_fields : {<<"xesam:title", "xesam:artist">>},
    metadata_seperator : {<<"-">>},
    hide_output : BOOLEAN ]

\* the literal of update_message for the empty player list
NoPlayerAvailable ==
  <<"N", "o", " ", "p", "l", "a", "y", "e", "r", " ",
    "a", "v", "a", "i", "l", "a", "b", "l", "e">>

(* ------------------------------- State -------------------------------- *)
VARIABLES
  config,            \* State.config
  current_player,    \* State.current_player
  player_names,      \* State.player_names
  message,           \* State.message
  display_text,      \* State.display_text
  display_prefix,    \* State.display_prefix
  display_suffix,    \* State.display_suffix
  status_paused,     \* State.status_paused
  last_player_name,  \* State.last_player_name
  run,               \* the loop of main: "Running", "Stopped" or "Failed"
  error,             \* why main returned or aborted: "none", "transport",
                     \* "invalid index" or "panic"
  handle_closed,     \* handle.close() has been called
  stdout,            \* the lines printed by the last handled event
  last_event,        \* the event the loop handled last
  reconciled,        \* current_player as the last update_players call left
                     \* it, None when the last event did not complete one
  retargeted,        \* the for loop of the last update_players call assigned
                     \* current_player
  proxy_answer,      \* the status and the index of the metadata record the
                     \* player proxy answered the last tick with, else None
  advances,          \* next_player calls in a row that found the list unchanged
  advance_start,     \* current_player before the first of these calls
  arg_text,          \* make_visual_len: argument text
  arg_length,        \* make_visual_len: argument visual_desired_length
  rendered,          \* make_visual_len: its result, None before the call
  scrolls            \* scroll calls made on display_text since it was message

state_vars ==
  <<current_player, player_names, message, display_text, display_prefix,
    display_suffix, status_paused, last_player_name>>
loop_vars == <<run, error, handle_closed, stdout, last_event>>
history_vars == <<reconciled, retargeted, proxy_answer, advances, advance_start>>
render_vars == <<arg_text, arg_length, rendered, scrolls>>
vars == <<config, state_vars, loop_vars, history_vars, render_vars>>

\* the State struct as a record, for the methods below
Self ==
  [ current_player |-> current_player,
    player_names |-> player_names,
    message |-> message,
    display_text |-> display_text,
    display_prefix |-> display_prefix,
    display_suffix |-> display_suffix,
    status_paused |-> status_paused,
    last_player_name |-> last_player_name ]

\* the result of a method: the state it leaves and the error it returns
Ok(s) == [st |-> s, err |-> "none"]
Err(s, e) == [st |-> s, err |-> e]

\* State::get_name_by_index
get_name_by_index(s, index) ==
  IF index < Len(s.player_names)
  THEN Some(get_name(s.player_names[index + 1]))
  ELSE None

(* ------------------------ update_prefix_suffix ------------------------ *)
\* str::contains: needle occurs in haystack as a contiguous run
contains(haystack, needle) ==
  \E i \in 0..(Len(haystack) - Len(needle)) :
     SubSeq(haystack, i + 1, i + Len(needle)) = needle

\* the closure handed to find: |(key, _)| key.contains(player_name)
PrefixMatches(key, player_name) == contains(key, player_name)

\* format!("%{{A:playerctl {player_option} <cmd> :}}{}%{{A}}", glyph)
Button(player_option, cmd, glyph) ==
  <<"%{A:playerctl ">> \o player_option \o <<" ", cmd, " :}", glyph, "%{A}">>

\* IsPlaying that takes any status for "Playing"
IsPlayingAnyStatus(status) == is_some(status)

\* the branch of update_prefix_suffix that picks the pause button
IsPlaying(status) == is_some(status) /\ unwrap(status) = "Playing"

\* .iter().find(..).map(..).copied().unwrap_or(default)
FindPrefix(cfg, player_name) ==
  LET hits == { i \in DOMAIN cfg.specific :
                  PrefixMatches(cfg.specific[i][1], player_name) }
  IN  IF hits = {} THEN cfg.default_prefix
      ELSE cfg.specific[CHOOSE i \in hits : \A j \in hits : i <= j][2]

\* State::update_prefix_suffix
update_prefix_suffix(s, cfg, player_name, status) ==
  LET player_option ==
        IF is_some(player_name) THEN <<"-p ">> \o unwrap(player_name) ELSE <<>>
      prev_button == Button(player_option, "previous", cfg.control_chars.previous)
      play_button == Button(player_option, "play", cfg.control_chars.play)
      pause_button == Button(player_option, "pause", cfg.control_chars.pause)
      next_button == Button(player_option, "next", cfg.control_chars.next)
      playing == IsPlaying(status)
      suffix == <<" ">> \o prev_button
                \o <<" ">> \o (IF playing THEN pause_button ELSE play_button)
                \o <<" ">> \o next_button
  IN  [s EXCEPT !.status_paused = ~playing,
                !.display_suffix = suffix,
                !.display_prefix =
                   IF is_some(player_name)
                   THEN FindPrefix(cfg, unwrap(player_name))
                   ELSE cfg.default_prefix]

(* --------------------------- update_players --------------------------- *)
\* Retarget with the 1-based position of the hit taken for the index
RetargetOneBased(names, current, last) ==
  LET hits == { i \in 1..Len(names) : get_name(names[i]) = last }
  IN  IF hits = {} THEN current
      ELSE CHOOSE i \in hits : \A j \in hits : j <= i

\* the for loop of update_players: the last position whose derived name is
\* the remembered name, or the old index when there is none
Retarget(names, current, last) ==
  LET hits == { i \in 1..Len(names) : get_name(names[i]) = last }
  IN  IF hits = {} THEN current
      ELSE (CHOOSE i \in hits : \A j \in hits : j <= i) - 1

\* State::update_players; listed = None when list_names fails, else
\* Some(snapshot)
update_players(s, listed) ==
  IF ~is_some(listed) THEN Err(s, "transport")
  ELSE LET s1 == [s EXCEPT !.player_names = Filter(unwrap(listed))]
       IN  IF Some(s1.last_player_name)
                 # get_name_by_index(s1, s1.current_player)
           THEN Ok([s1 EXCEPT !.current_player =
                                 Retarget(s1.player_names, s1.current_player,
                                          s1.last_player_name)])
           ELSE Ok(s1)

(* ---------------------------- next_player ----------------------------- *)
\* NextIndex stopping at the last entry instead of wrapping
NextIndexClamped(index, len) == IF index + 1 < len THEN index + 1 ELSE len - 1

\* NextIndex without the modulo
NextIndexNoWrap(index, len) == index + 1

\* the index next_player moves to
NextIndex(index, len) == (index + 1) % len

\* next_player that starts the displayed text over for the new player
next_playerResetsDisplay(refreshed) ==
  IF refreshed.err # "none" THEN refreshed
  ELSE LET s1 == refreshed.st
       IN  IF s1.player_names = <<>> THEN Ok(s1)
           ELSE LET index == NextIndex(s1.current_player, Len(s1.player_names))
                    s2 == [s1 EXCEPT !.current_player = index,
                                     !.display_text = s1.message]
                    name == get_name_by_index(s2, index)
                IN  IF is_some(name)
                    THEN Ok([s2 EXCEPT !.last_player_name = unwrap(name)])
                    ELSE Err(s2, "invalid index")

\* State::next_player, refreshed being what its update_players call returned
next_player(refreshed) ==
  IF refreshed.err # "none" THEN refreshed
  ELSE LET s1 == refreshed.st
       IN  IF s1.player_names = <<>> THEN Ok(s1)
           ELSE LET index == NextIndex(s1.current_player, Len(s1.player_names))
                    s2 == [s1 EXCEPT !.current_player = index]
                    name == get_name_by_index(s2, index)
                IN  IF is_some(name)
                    THEN Ok([s2 EXCEPT !.last_player_name = unwrap(name)])
                    ELSE Err(s2, "invalid index")

(* --------------------------- update_message --------------------------- *)
RECURSIVE MetadataStrings(_, _)
\* the for loop over config.metadata_fields: [ok, list]; ok = FALSE when
\* value_to_string panics
MetadataStrings(fields, metadata) ==
  IF fields = <<>> THEN [ok |-> TRUE, list |-> <<>>]
  ELSE LET rest == MetadataStrings(Tail(fields), metadata)
       IN  IF Head(fields) \notin DOMAIN metadata THEN rest
           ELSE LET res == value_to_string(metadata[Head(fields)])
                    str == trim(res.str)
                IN  IF ~res.ok THEN [ok |-> FALSE, list |-> <<>>]
                    ELSE IF ~rest.ok THEN rest
                    ELSE IF str # <<>>
                         THEN [ok |-> TRUE, list |-> <<str>> \o rest.list]
                         ELSE rest

\* whether update_message wraps the joined string for scrolling
NeedsWrap(metadata_string, cfg) ==
  visual_len(metadata_string) > cfg.message_display_len

\* Wrap with a single trailing space
WrapOneTrailing(metadata_string) == <<" ">> \o metadata_string \o <<" ">>

\* format!(" {metadata_string}  ")
Wrap(metadata_string) == <<" ">> \o metadata_string \o <<" ", " ">>

\* the formatted message of update_message for a joined metadata string
FormatMessage(metadata_string, cfg) ==
  IF NeedsWrap(metadata_string, cfg) THEN Wrap(metadata_string)
  ELSE metadata_string

\* StoreMessage resetting the displayed text on every tick
StoreMessageAlways(s, new_message) ==
  [s EXCEPT !.message = new_message, !.display_text = new_message]

\* the tail of update_message: the stored message and the displayed text
\* are replaced only when the new message differs
StoreMessage(s, new_message) ==
  IF new_message # s.message
  THEN [s EXCEPT !.message = new_message, !.display_text = new_message]
  ELSE s

\* State::update_message; fetched = None when the proxy, PlaybackStatus or
\* Metadata call fails, else Some([status, metadata])
update_message(s, cfg, fetched) ==
  IF s.player_names = <<>>
  THEN Ok(StoreMessage(update_prefix_suffix(s, cfg, STRNONE, STRNONE),
                       NoPlayerAvailable))
  ELSE LET name == get_name_by_index(s, s.current_player)
       IN  IF ~is_some(name) THEN Err(s, "invalid index")
           ELSE IF ~is_some(fetched) THEN Err(s, "transport")
           ELSE LET status == unwrap(fetched).status
                    strings == MetadataStrings(cfg.metadata_fields,
                                               unwrap(fetched).metadata)
                    sep == <<" ">> \o cfg.metadata_seperator \o <<" ">>
                    metadata_string ==
                       FormatMessage(Join(strings.list, sep), cfg)
                    s1 == update_prefix_suffix(s, cfg, name, Some(status))
                    s2 == [s1 EXCEPT !.last_player_name = unwrap(name)]
                IN  IF ~strings.ok THEN Err(s, "panic")
                    ELSE Ok(StoreMessage(s2, metadata_string))

(* ------------------------------- scroll ------------------------------- *)
\* RotateLeft turning the other way: the last character to the front
RotateRight(s) ==
  IF s = <<>> THEN <<>> ELSE <<s[Len(s)]>> \o SubSeq(s, 1, Len(s) - 1)

\* the Greater branch: text.collect::<String>() + &first
RotateLeft(s) == IF s = <<>> THEN <<>> ELSE Tail(s) \o <<Head(s)>>

\* the operand of " ".repeat in the Less branch
PadCount(display, cfg) == cfg.message_display_len - byte_len(display)

\* scroll without the test of status_paused
scrollWhilePaused(s, cfg) ==
  IF visual_len(s.display_text) > cfg.message_display_len
  THEN Ok([s EXCEPT !.display_text = RotateLeft(s.display_text)])
  ELSE IF visual_len(s.display_text) < cfg.message_display_len
       THEN IF PadCount(s.display_text, cfg) < 0 THEN Err(s, "panic")
            ELSE Ok([s EXCEPT !.display_text =
                        s.display_text \o Spaces(PadCount(s.display_text, cfg))])
  ELSE Ok(s)

\* State::scroll.  A negative pad count is a usize subtraction that
\* overflows: a debug build panics at the subtraction, a release build
\* wraps and panics in repeat (capacity overflow); either way the process
\* aborts with display_text as it was
scroll(s, cfg) ==
  IF s.status_paused THEN Ok(s)
  ELSE IF visual_len(s.display_text) > cfg.message_display_len
       THEN Ok([s EXCEPT !.display_text = RotateLeft(s.display_text)])
  ELSE IF visual_len(s.display_text) < cfg.message_display_len
       THEN IF PadCount(s.display_text, cfg) < 0 THEN Err(s, "panic")
            ELSE Ok([s EXCEPT !.display_text =
                        s.display_text \o Spaces(PadCount(s.display_text, cfg))])
  ELSE Ok(s)

(* ----------------------------- print_text ----------------------------- *)
\* println!("{} %{{T{}}}{}%{{T-}}{}", prefix, font_index, rendered, suffix)
Line(s, cfg) ==
  <<s.display_prefix, " ", "%{T">> \o IntToString(cfg.font_index) \o <<"}">>
  \o make_visual_len(s.display_text, cfg.message_display_len)
  \o <<"%{T-}">> \o s.display_suffix

\* println!()
EmptyLine == <<>>

\* Hidden that looks at hide_output alone
HiddenIgnoringPlayers(s, cfg) == cfg.hide_output

\* whether print_text prints the bare empty line
Hidden(s, cfg) == cfg.hide_output /\ s.player_names = <<>>

\* State::print_text: [st, err, out], out the lines printed
print_text(s, cfg) ==
  IF Hidden(s, cfg) THEN [st |-> s, err |-> "none", out |-> <<EmptyLine>>]
  ELSE LET r == scroll(s, cfg)
       IN  IF r.err # "none" THEN [st |-> r.st, err |-> r.err, out |-> <<>>]
           ELSE [st |-> r.st, err |-> "none", out |-> <<Line(r.st, cfg)>>]

(* ------------------------------ the loop ------------------------------ *)
\* the interval.tick() arm of select!, refreshed being what its
\* update_players call returned:
\* update_players().await?; update_message().await?; print_text()
tick(refreshed, cfg, fetched) ==
  IF refreshed.err # "none"
  THEN [st |-> refreshed.st, err |-> refreshed.err, out |-> <<>>]
  ELSE LET r == update_message(refreshed.st, cfg, fetched)
       IN  IF r.err # "none" THEN [st |-> r.st, err |-> r.err, out |-> <<>>]
           ELSE print_text(r.st, cfg)

\* the answers of list_names: None when the call fails
ListNamesAnswers == {None} \cup { Some(s) : s \in Snapshots }

\* the answer of the player proxy: None when a call fails (i = 0), else the
\* status and the i-th metadata record
FetchAnswer(st, i) ==
  IF i = 0 THEN None
  ELSE Some([status |-> st, metadata |-> MetadataRecords[i]])

\* whether update_message gets as far as the player proxy
ReachesFetch(refreshed) ==
  /\ refreshed.err = "none"
  /\ refreshed.st.player_names # <<>>
  /\ refreshed.st.current_player < Len(refreshed.st.player_names)

\* assigns the fields of State
Store(s) ==
  /\ current_player' = s.current_player
  /\ player_names' = s.player_names
  /\ message' = s.message
  /\ display_text' = s.display_text
  /\ display_prefix' = s.display_prefix
  /\ display_suffix' = s.display_suffix
  /\ status_paused' = s.status_paused
  /\ last_player_name' = s.last_player_name

\* Leave that goes on with the loop after an error
LeaveSkipsError(err) ==
  /\ run' = "Running"
  /\ error' = err
  /\ UNCHANGED handle_closed

\* an error returned with ? leaves main; a panic aborts the process
Leave(err) ==
  /\ run' = (IF err = "none" THEN "Running" ELSE "Failed")
  /\ error' = err
  /\ UNCHANGED handle_closed

\* State { .. } as State::new builds it, before its update_players call
NewState ==
  [ current_player |-> 0,
    player_names |-> <<>>,
    message |-> <<>>,
    display_text |-> <<>>,
    display_prefix |-> " ",
    display_suffix |-> <<>>,
    status_paused |-> FALSE,
    last_player_name |-> <<>> ]

NoRender ==
  /\ arg_text = <<>>
  /\ arg_length = 0
  /\ rendered = None
  /\ scrolls = 0

\* main up to the loop: the configuration is loaded and State::new, with
\* its first update_players, has succeeded
Init ==
  /\ config \in Configs
  /\ \E snapshot \in Snapshots :
       LET s == update_players(NewState, Some(snapshot)).st
       IN  /\ current_player = s.current_player
           /\ player_names = s.player_names
           /\ message = s.message
           /\ display_text = s.display_text
           /\ display_prefix = s.display_prefix
           /\ display_suffix = s.display_suffix
           /\ status_paused = s.status_paused
           /\ last_player_name = s.last_player_name
           /\ reconciled = Some(s.current_player)
           /\ retargeted = (s.current_player # NewState.current_player)
  /\ proxy_answer = None
  /\ run = "Running"
  /\ error = "none"
  /\ handle_closed = FALSE
  /\ stdout = <<>>
  /\ last_event = "new"
  /\ advances = 0
  /\ advance_start = 0
  /\ NoRender

\* current_player as update_players left it, None when list_names failed
Reconciled(refreshed) ==
  IF refreshed.err = "none" THEN Some(refreshed.st.current_player) ELSE None

\* the timer arm
Tick ==
  /\ run = "Running"
  /\ \E listed \in ListNamesAnswers :
     \E refreshed \in {update_players(Self, listed)} :
     \E st \in Statuses :
     \E i \in (IF ReachesFetch(refreshed) THEN 0..Len(MetadataRecords)
               ELSE {0}) :
     \E r \in {tick(refreshed, config, FetchAnswer(st, i))} :
        /\ Store(r.st)
        /\ Leave(r.err)
        /\ stdout' = r.out
        /\ reconciled' = Reconciled(refreshed)
        /\ retargeted' = (refreshed.st.current_player # current_player)
        /\ proxy_answer' = (IF i = 0 THEN None ELSE Some(<<st, i>>))
  /\ last_event' = "tick"
  /\ advances' = 0
  /\ advance_start' = 0
  /\ UNCHANGED <<config, render_vars>>

\* the signal arm, SIGUSR1: state.next_player().await?
SelectNext ==
  /\ run = "Running"
  /\ \E listed \in ListNamesAnswers :
     \E refreshed \in {update_players(Self, listed)} :
     \E r \in {next_player(refreshed)} :
       LET same == /\ r.err = "none"
                   /\ player_names # <<>>
                   /\ r.st.player_names = player_names
           continues == same /\ advances >= 1 /\ advances < Len(player_names)
       IN  /\ Store(r.st)
           /\ Leave(r.err)
           /\ reconciled' = Reconciled(refreshed)
           /\ retargeted' = (refreshed.st.current_player # current_player)
           /\ advances' = (IF continues THEN advances + 1
                           ELSE IF same THEN 1 ELSE 0)
           /\ advance_start' = (IF continues THEN advance_start
                                ELSE IF same THEN current_player ELSE 0)
  /\ proxy_answer' = None
  /\ stdout' = <<>>
  /\ last_event' = "next"
  /\ UNCHANGED <<config, render_vars>>

\* Terminate that leaves the loop without handle.close()
TerminateWithoutClose ==
  /\ run = "Running"
  /\ run' = "Stopped"
  /\ stdout' = <<>>
  /\ last_event' = "terminate"
  /\ reconciled' = None
  /\ retargeted' = FALSE
  /\ proxy_answer' = None
  /\ advances' = 0
  /\ advance_start' = 0
  /\ UNCHANGED <<config, state_vars, error, handle_closed, render_vars>>

\* the signal arm, any other signal (SIGTERM): break; handle.close(); Ok(())
Terminate ==
  /\ run = "Running"
  /\ run' = "Stopped"
  /\ handle_closed' = TRUE
  /\ stdout' = <<>>
  /\ last_event' = "terminate"
  /\ reconciled' = None
  /\ retargeted' = FALSE
  /\ proxy_answer' = None
  /\ advances' = 0
  /\ advance_start' = 0
  /\ UNCHANGED <<config, state_vars, error, render_vars>>

Next == Tick \/ SelectNext \/ Terminate

Spec == Init /\ [][Next]_vars

(* ---------------------- make_visual_len alone ------------------------ *)
\* the characters of the texts make_visual_len is applied to
RenderChars == {"a", " ", "W", "z"}

Texts == UNION { [1..n -> RenderChars] : n \in 0..MaxTextLen }

\* the State of SpecRender: as constructed, with no player on the bus
InitRender ==
  /\ config = CHOOSE c \in Configs : ~c.hide_output
  /\ current_player = NewState.current_player
  /\ player_names = NewState.player_names
  /\ message = NewState.message
  /\ display_text = NewState.display_text
  /\ display_prefix = NewState.display_prefix
  /\ display_suffix = NewState.display_suffix
  /\ status_paused = NewState.status_paused
  /\ last_player_name = NewState.last_player_name
  /\ run = "Running"
  /\ error = "none"
  /\ handle_closed = FALSE
  /\ stdout = <<>>
  /\ last_event = "new"
  /\ reconciled = Some(0)
  /\ retargeted = FALSE
  /\ proxy_answer = None
  /\ advances = 0
  /\ advance_start = 0
  /\ arg_text \in Texts
  /\ arg_length \in 0..(DisplayLen + 1)
  /\ rendered = None
  /\ scrolls = 0

\* one call make_visual_len(text, visual_desired_length)
MakeVisualLen ==
  /\ rendered = None
  /\ rendered' = Some(make_visual_len(arg_text, arg_length))
  /\ UNCHANGED <<config, state_vars, loop_vars, history_vars, arg_text,
                 arg_length, scrolls>>

NextRender == MakeVisualLen

SpecRender == InitRender /\ [][NextRender]_vars

(* ---------------------------- scroll alone ---------------------------- *)
\* the characters of the texts scroll is applied to: narrow one-byte,
\* wide three-byte, narrow two-byte and zero-width two-byte
ScrollChars == {"a", "W", "h", "z"}

ScrollTexts == UNION { [1..n -> ScrollChars] : n \in 0..MaxTextLen }

\* a State whose message has just been stored: display_text = message, with
\* any message_display_len and either pause state
InitScroll ==
  /\ \E n \in 0..(DisplayLen + 1) :
        config = [(CHOOSE c \in Configs : ~c.hide_output)
                    EXCEPT !.message_display_len = n]
  /\ current_player = NewState.current_player
  /\ player_names = NewState.player_names
  /\ message \in ScrollTexts
  /\ display_text = message
  /\ display_prefix = NewState.display_prefix
  /\ display_suffix = NewState.display_suffix
  /\ status_paused \in BOOLEAN
  /\ last_player_name = NewState.last_player_name
  /\ run = "Running"
  /\ error = "none"
  /\ handle_closed = FALSE
  /\ stdout = <<>>
  /\ last_event = "new"
  /\ reconciled = Some(0)
  /\ retargeted = FALSE
  /\ proxy_answer = None
  /\ advances = 0
  /\ advance_start = 0
  /\ arg_text = <<>>
  /\ arg_length = 0
  /\ rendered = None
  /\ scrolls = 0

\* one call self.scroll(), as many in a row as the longest text has
\* characters
Scroll ==
  /\ run = "Running"
  /\ scrolls < MaxTextLen
  /\ \E r \in {scroll(Self, config)} :
        /\ Store(r.st)
        /\ Leave(r.err)
  /\ scrolls' = scrolls + 1
  /\ UNCHANGED <<config, stdout, last_event, history_vars, arg_text,
                 arg_length, rendered>>

NextScroll == Scroll

SpecScroll == InitScroll /\ [][NextScroll]_vars

(* ============================ properties ============================== *)

\* C1: after every completed update_players, a non-empty player list has
\* the index update_players left inside it (0 <= index < length), also when
\* the list shrank and the remembered name is gone.
C1_IndexValidAfterRefresh ==
  (is_some(reconciled) /\ player_names # <<>>)
     => unwrap(reconciled) < Len(player_names)

\* C2: when the name remembered before a refresh is the derived name of
\* some entry of the refreshed list, update_players leaves the index on an
\* entry with that name, whatever the index was and whatever the order is.
C2_SelectionFollowsName ==
  [][ ( /\ is_some(reconciled')
        /\ \E i \in 1..Len(player_names') :
              get_name(player_names'[i]) = last_player_name )
      => ( /\ unwrap(reconciled') < Len(player_names')
           /\ get_name(player_names'[unwrap(reconciled') + 1])
                 = last_player_name ) ]_vars

\* a refresh moved the index to the entry that carries the remembered name
C2_Witness ==
  /\ retargeted
  /\ last_event = "tick"
  /\ error = "none"
  /\ Len(player_names) = 2
  /\ get_name(player_names[unwrap(reconciled) + 1]) = last_player_name

\* C3: length-many next_player calls in a row on a non-empty player list
\* that every refresh finds unchanged bring the index back to the value it
\* had before the first of them.
C3_CyclicAdvance ==
  (player_names # <<>> /\ advances = Len(player_names))
     => current_player = advance_start

\* two advances over an unchanged list of two players
C3_Witness ==
  /\ Len(player_names) = 2
  /\ advances = 2
  /\ last_event = "next"
  /\ run = "Running"

\* C4: next_player on an empty refreshed list changes neither the index nor
\* the remembered name and returns no error; on a non-empty one it sets the
\* index to (index + 1) mod length, index being the one the refresh left,
\* and the remembered name to the derived name of the entry there.
C4_AdvanceStep ==
  [][ (last_event' = "next" /\ is_some(reconciled'))
      => IF player_names' = <<>>
         THEN /\ current_player' = current_player
              /\ last_player_name' = last_player_name
              /\ error' = "none"
         ELSE /\ current_player'
                   = (unwrap(reconciled') + 1) % Len(player_names')
              /\ last_player_name'
                   = get_name(player_names'[current_player' + 1])
              /\ error' = "none" ]_vars

\* two players, index 0, one advance: index 1 and the name of player 1
C4_Witness ==
  /\ last_event = "next"
  /\ Len(player_names) = 2
  /\ reconciled = Some(0)
  /\ current_player = 1
  /\ last_player_name = get_name(player_names[2])

\* C5: no tick and no select-next ever fails with the "invalid index" error.
C5_InvalidIndexUnreachable == error # "invalid index"

\* display_text after the scroll step of print_text, from d before it
AfterScroll(d) ==
  IF status_paused' THEN d
  ELSE IF visual_len(d) > config.message_display_len THEN Tail(d) \o <<Head(d)>>
  ELSE IF visual_len(d) < config.message_display_len
       THEN d \o Spaces(config.message_display_len - byte_len(d))
  ELSE d

\* C6: a tick whose computed message equals the stored one does not reset
\* display_text (only the scroll step of that tick can change it); a tick
\* whose computed message differs replaces message and sets display_text to
\* it before the scroll step.
C6_ScrollDurable ==
  [][ (last_event' = "tick" /\ error' = "none")
      => LET before == IF message' = message THEN display_text ELSE message'
         IN  display_text' =
               IF config.hide_output /\ player_names' = <<>> THEN before
               ELSE AfterScroll(before) ]_vars

\* a displayed text two rotations away from its message: the second tick
\* kept the progress of the first
C6_Witness ==
  /\ last_event = "tick"
  /\ error = "none"
  /\ ~status_paused
  /\ Len(message) > 2
  /\ display_text = RotateLeft(RotateLeft(message))
  /\ display_text # message

\* C7: the string make_visual_len returns has display width exactly the
\* desired length, wide characters counting 2.
C7_RenderWidth ==
  is_some(rendered) => visual_len(unwrap(rendered)) = arg_length

\* a text cut in front of a wide character that does not fit
C7_Witness ==
  /\ is_some(rendered)
  /\ arg_text = <<"a", "W", "a">>
  /\ arg_length = 2

\* the longest prefix of t whose display width does not exceed w, padded
\* with spaces to width w
LongestPrefixPadded(t, w) ==
  LET fits == { k \in 0..Len(t) : visual_len(SubSeq(t, 1, k)) <= w }
      k == CHOOSE n \in fits : \A m \in fits : m <= n
      kept == SubSeq(t, 1, k)
  IN  kept \o Spaces(w - visual_len(kept))

\* C8: make_visual_len keeps the longest prefix whose display width does
\* not exceed the desired length and pads it with spaces; a text that is
\* exactly that wide keeps all its characters.
C8_RenderLongestPrefix ==
  is_some(rendered) => unwrap(rendered) = LongestPrefixPadded(arg_text, arg_length)

\* the joined metadata string of the i-th metadata record
JoinedMetadata(i) ==
  Join(MetadataStrings(config.metadata_fields, MetadataRecords[i]).list,
       <<" ">> \o config.metadata_seperator \o <<" ">>)

\* the message of a joined string j: j itself up to the display length,
\* one space in front and two behind beyond it
ExpectedMessage(j) ==
  IF visual_len(j) <= config.message_display_len THEN j
  ELSE <<" ">> \o j \o <<" ", " ">>

\* C9: the message of a tick is the joined metadata string unchanged when
\* its display width is at most message_display_len, and that string with
\* one space in front and two behind when it is wider; the first scroll
\* step that is not paused on a freshly wrapped message moves the leading
\* space to the end.
C9_WrapForScrolling ==
  [][ (last_event' = "tick" /\ error' = "none" /\ is_some(proxy_answer'))
      => LET j == JoinedMetadata(unwrap(proxy_answer')[2])
             fresh == message' # message \/ display_text = message
         IN  /\ message' = ExpectedMessage(j)
             /\ ( /\ visual_len(j) > config.message_display_len
                  /\ ~status_paused'
                  /\ fresh )
                => display_text' = j \o <<" ", " ", " ">> ]_vars

\* a freshly wrapped message after its first scroll step
C9_Witness ==
  /\ last_event = "tick"
  /\ error = "none"
  /\ is_some(proxy_answer)
  /\ ~status_paused
  /\ visual_len(message) > config.message_display_len + 2
  /\ Head(message) = " "
  /\ display_text = Tail(message) \o <<" ">>

\* the suffix carries the button of cmd, drawn with glyph
HasButton(suffix, cmd, glyph) ==
  \E k \in 1..(Len(suffix) - 2) :
     /\ suffix[k] = cmd
     /\ suffix[k + 1] = " :}"
     /\ suffix[k + 2] = glyph

\* C10: after a tick that reached update_prefix_suffix, paused is false and
\* the suffix carries the pause button exactly when a status was given and
\* is "Playing"; otherwise paused is true and the suffix carries the play
\* button.  A tick without players sets the message to the no-player
\* sentinel, the prefix to the default glyph, the play button and paused.
C10_PausedAndButton ==
  (last_event = "tick" /\ error = "none")
     => LET playing == is_some(proxy_answer) /\ unwrap(proxy_answer)[1] = "Playing"
            pause == HasButton(display_suffix, "pause", config.control_chars.pause)
            play == HasButton(display_suffix, "play", config.control_chars.play)
        IN  /\ status_paused = ~playing
            /\ pause = playing
            /\ play = ~playing
            /\ player_names = <<>>
                 => /\ ~is_some(proxy_answer)
                    /\ message = NoPlayerAvailable
                    /\ display_prefix = config.default_prefix
                    /\ play
                    /\ status_paused

\* a tick on a player whose status is not "Playing"
C10_Witness ==
  /\ last_event = "tick"
  /\ error = "none"
  /\ is_some(proxy_answer)
  /\ unwrap(proxy_answer)[1] = "Paused"
  /\ status_paused
  /\ HasButton(display_suffix, "play", config.control_chars.play)

\* the table entries whose key is a substring of the player name
KeysInName(player_name) ==
  { i \in DOMAIN config.specific : contains(player_name, config.specific[i][1]) }

\* C11: after a tick on a selected player the prefix is the glyph of a
\* table entry whose key is a substring of the player's name when there is
\* such an entry and the default glyph when there is none; after a tick
\* without players (no player name given) it is the default glyph.
C11_PrefixBySubstring ==
  (last_event = "tick" /\ error = "none")
     => IF player_names = <<>>
        THEN display_prefix = config.default_prefix
        ELSE IF KeysInName(last_player_name) = {}
             THEN display_prefix = config.default_prefix
             ELSE \E i \in KeysInName(last_player_name) :
                     display_prefix = config.specific[i][2]

\* C12: every tick that completes without error prints exactly one line.
\* The line is empty exactly when hide_output is set and the player list is
\* empty, and then display_text gets no scroll step; otherwise display_text
\* gets exactly one scroll step and the line printed is the prefix, the
\* font tag around the scrolled text rendered to message_display_len, and
\* the suffix.
C12_OneLinePerTick ==
  [][ (last_event' = "tick" /\ error' = "none")
      => LET before == IF message' = message THEN display_text ELSE message'
             hidden == config.hide_output /\ player_names' = <<>>
         IN  /\ Len(stdout') = 1
             /\ (stdout'[1] = <<>>) <=> hidden
             /\ hidden => display_text' = before
             /\ ~hidden =>
                  /\ display_text' = AfterScroll(before)
                  /\ stdout'[1] =
                       <<display_prefix', " ", "%{T">>
                       \o IntToString(config.font_index) \o <<"}">>
                       \o make_visual_len(display_text',
                                          config.message_display_len)
                       \o <<"%{T-}">> \o display_suffix' ]_vars

\* a tick that printed the line of a message rotated by its scroll step
C12_Witness ==
  /\ last_event = "tick"
  /\ error = "none"
  /\ ~config.hide_output
  /\ player_names # <<>>
  /\ Len(stdout) = 1
  /\ stdout[1] # <<>>
  /\ display_text = RotateLeft(message)
  /\ display_text # message

\* C13: the loop is still running after every tick and every next_player
\* that succeeds; a delivered signal other than SIGUSR1 stops it, closing
\* the signal handle, printing nothing and leaving State as it was; once
\* stopped nothing changes any more: no tick, no signal, no line.
C13_Termination ==
  /\ [](run = "Stopped" <=> handle_closed)
  /\ [][ /\ (last_event' \in {"tick", "next"} /\ error' = "none")
               => run' = "Running"
         /\ last_event' = "terminate"
               => /\ run = "Running"
                  /\ run' = "Stopped"
                  /\ handle_closed'
                  /\ stdout' = <<>>
                  /\ UNCHANGED <<config, state_vars, error>>
         /\ run = "Stopped" => FALSE ]_vars

\* the loop left by SIGTERM after a tick that printed a line
C13_Witness ==
  /\ run = "Stopped"
  /\ handle_closed
  /\ last_event = "terminate"
  /\ error = "none"
  /\ message # <<>>
  /\ stdout = <<>>

\* C14: when list_names fails in a tick or in next_player, or the player
\* proxy fails in a tick, the error leaves the loop: the process ends with
\* the transport error, the event prints no line, and no tick and no signal
\* is handled afterwards.
C14_FailFast ==
  [][ LET listing_failed == /\ last_event' \in {"tick", "next"}
                            /\ ~is_some(reconciled')
          fetch_failed == /\ last_event' = "tick"
                          /\ is_some(reconciled')
                          /\ player_names' # <<>>
                          /\ unwrap(reconciled') < Len(player_names')
                          /\ ~is_some(proxy_answer')
      IN  /\ (listing_failed \/ fetch_failed)
                => /\ error' = "transport"
                   /\ run' = "Failed"
                   /\ stdout' = <<>>
          /\ error' = "transport" => (listing_failed \/ fetch_failed)
          /\ run = "Failed" => FALSE ]_vars

\* a tick whose list_names call succeeded and whose player proxy failed
C14_Witness ==
  /\ run = "Failed"
  /\ error = "transport"
  /\ last_event = "tick"
  /\ is_some(reconciled)
  /\ player_names # <<>>
  /\ stdout = <<>>

\* C15: while status_paused is set a scroll step leaves display_text as it
\* was, whatever the text and whatever message_display_len: neither rotated
\* nor padded, so over any number of steps with the message unchanged
\* display_text stays the text it was.
C15_PausedHoldsSteady ==
  status_paused => (display_text = message /\ error = "none")

\* two paused scroll steps on a text wider than message_display_len
C15_Witness ==
  /\ status_paused
  /\ scrolls >= 2
  /\ visual_len(display_text) > config.message_display_len
  /\ Len(display_text) >= 2
  /\ display_text[1] # display_text[2]

\* d is a cyclic rotation of m
IsRotation(d, m) ==
  /\ Len(d) = Len(m)
  /\ \E k \in 0..Len(m) : d = SubSeq(m, k + 1, Len(m)) \o SubSeq(m, 1, k)

\* C16: a scroll step that is not paused on a display_text wider than
\* message_display_len moves its first character to the end and changes
\* nothing else: as many characters, the same display width, still a
\* rotation of message, and message again after as many steps as it has
\* characters.  On a display_text exactly message_display_len wide the step
\* changes nothing.
C16_RotationBranch ==
  [][ ~status_paused
      => /\ visual_len(display_text) > config.message_display_len
              => /\ display_text' = Tail(display_text) \o <<Head(display_text)>>
                 /\ Len(display_text') = Len(display_text)
                 /\ visual_len(display_text') = visual_len(display_text)
                 /\ IsRotation(display_text', message)
                 /\ scrolls' = Len(message) => display_text' = message
                 /\ error' = "none"
                 /\ UNCHANGED <<config, current_player, player_names, message,
                                display_prefix, display_suffix, status_paused,
                                last_player_name>>
         /\ visual_len(display_text) = config.message_display_len
              => /\ error' = "none"
                 /\ UNCHANGED <<config, state_vars>> ]_vars

\* three rotations brought a text of three characters back to itself
C16_Witness ==
  /\ ~status_paused
  /\ Len(message) = 3
  /\ message[1] # message[2]
  /\ visual_len(message) > config.message_display_len
  /\ scrolls = 3
  /\ display_text = message

\* C17: a scroll step that is not paused on a display_text narrower than
\* message_display_len appends message_display_len minus the display width
\* of display_text spaces and leaves the characters already there alone,
\* for texts with multi-byte and wide characters as for any other.
C17_PaddingBranch ==
  [][ (~status_paused /\ visual_len(display_text) < config.message_display_len)
      => display_text' =
           display_text
           \o Spaces(config.message_display_len - visual_len(display_text)) ]_vars

\* C18: value_to_string never aborts: whatever metadata record the player
\* answers a tick with, every configured field present in it, be it a
\* scalar, an array, an empty array, a nested array or a kind outside the
\* listed ones, is turned into a string (or an error value) and the field
\* loop of update_message runs to its end.
C18_ProjectionTotal ==
  is_some(proxy_answer)
     => MetadataStrings(config.metadata_fields,
                        MetadataRecords[unwrap(proxy_answer)[2]]).ok

\* C19: handling SIGUSR1 prints no line and leaves message, display_text,
\* display_prefix, display_suffix and status_paused as they were; of State
\* only player_names, current_player and last_player_name can change.
C19_NextKeepsDisplay ==
  [][ last_event' = "next"
      => /\ stdout' = <<>>
         /\ UNCHANGED <<config, message, display_text, display_prefix,
                        display_suffix, status_paused>> ]_vars

\* next_player moved to the second player under a text scrolled by a tick
C19_Witness ==
  /\ last_event = "next"
  /\ error = "none"
  /\ current_player = 1
  /\ last_player_name = get_name(player_names[2])
  /\ message # <<>>
  /\ display_text # message
  /\ stdout = <<>>

\* C20: the subtraction of the Less branch of scroll never goes below zero:
\* whenever display_text is not paused and narrower than
\* message_display_len, its stored length in bytes is at most
\* message_display_len.
C20_PadCountNotNegative ==
  (~status_paused /\ visual_len(display_text) < config.message_display_len)
     => byte_len(display_text) <= config.message_display_len

====
